---- MODULE Spec2Model ----
(***************************************************************************)
(* Model of the execution-backend orchestration layer of cirrus-cli:       *)
(*   - RunContainerizedAgent / runAdditionalContainer / pullHelper         *)
(*     (internal/executor/instance/instance.go)                            *)
(*   - Parallels.Run (parallels isolation)                                 *)
(*   - NewFromProto, the quota clamping and the ContainerCreate inputs,    *)
(*     TimeSyncCommand and DefaultParser.Parse (pkg/parser/parseable),     *)
(*     applied on their own to bounded arguments                           *)
(* Every goroutine is a process with its own program counter; backend      *)
(* calls are steps whose outcome (success or error) the backend chooses.   *)
(***************************************************************************)
EXTENDS Integers, Sequences, FiniteSets, Bags, TLC

\* ---------------------------------------------------------------- bounds
MaxAdditional == 2      \* largest number of additional containers tried
MaxExitCode == 1        \* exit codes 0..MaxExitCode
RetryAttempts == 2      \* attempts of retry.Do around vm.RetrieveIP
MaxFields == 2          \* longest parser.fields tried
MaxChildren == 2        \* longest node.Children tried

\* the exit codes a container may report
ExitCodes == 0..MaxExitCode

\* cont.ID before ContainerCreate returned
NoID == 0

\* the identifier the backend gives the main container
MainContainerID == 1

\* no result received from waitChan
NoRes == -1

\* the results the backend's ContainerWait may deliver for the main container:
\* an exit code and the runtime error reported with it ("": none)
WaitResults == [StatusCode : ExitCodes, Error : {"", "runtime error"}]

\* ---------------------------------------------------------------- errors
ErrAdditionalContainerFailed == "additional container failed"
ErrFailed == "Parallels isolation failed"
NoSentinel == "none"

\* the nil error
NilErr == [wraps |-> NoSentinel, cause |-> "nil"]

\* an error produced by the backend (or another collaborator), as is
BackendErr(call) == [wraps |-> NoSentinel, cause |-> call]

\* the cause of a ContainerWait aborted by the cancellation of its context
ContextCanceled == "ContainerWait: context canceled"

\* fmt.Errorf("%w: %v", sentinel, err)
Errorf(sentinel, err) == [wraps |-> sentinel, cause |-> err.cause]

VARIABLES
    pc,            \* position of RunContainerizedAgent
    deferStep,     \* position inside the deferred teardown function (0: not in it)
    ctxDone,       \* the caller's context (ctx) is cancelled
    nAC,           \* len(params.AdditionalContainers)
    noCleanup,     \* config.ContainerOptions.NoCleanup
    contID,        \* cont.ID of the main container (NoID: not created)
    mainStarted,   \* backend.ContainerStart succeeded for the main container
    acCancelled,   \* additionalContainersCancel() was called
    acWG,          \* additionalContainersWG counter
    logCancelled,  \* cancelLogReaderCtx() was called
    logWG,         \* logReaderWg counter
    logReader,     \* log reader goroutine: "none", "reading", "done"
    waiter,        \* backend side of ContainerWait: "none", "pending", "posted"
    waitChan,      \* waitChan contents
    errChan,       \* errChan contents
    acErrChan,     \* additionalContainersErrChan contents
    selected,      \* the case of the select statement that was taken
    ret,           \* value returned by RunContainerizedAgent
    mainDeletes,   \* ContainerDelete calls made for the main container
    mainLogged,    \* "not cleaning up container" was logged
    mainRes,       \* res, the value received from waitChan (<<>>: none)
    mainWarned,    \* "error while removing container" was logged
    deleteCtxDone, \* some ContainerDelete call was given a context that
                   \* was cancelled
    ac,            \* the goroutines running runAdditionalContainer: a bag of
                   \* their local states (the goroutines are interchangeable)
    firstEvent     \* history kept for the select statement: which of the three
                   \* awaited events occurred first ("none" once the function
                   \* is past the select statement)

cvars == <<pc, deferStep, ctxDone, nAC, noCleanup, contID, mainStarted,
           acCancelled, acWG, logCancelled, logWG, logReader, waiter,
           waitChan, errChan, acErrChan, selected, ret, mainDeletes,
           mainLogged, mainRes, mainWarned, deleteCtxDone, ac, firstEvent>>

VARIABLES
    ppc,              \* position of Parallels.Run
    pCtxDone,         \* the context passed to Parallels.Run is cancelled
    pdefers,          \* deferred calls of Parallels.Run, last registered first
    attempts,         \* failed attempts of retry.Do so far
    conn,             \* netConn: "none", "open", "closed"
    monitor,          \* monitor goroutine: "none", "waiting", "done"
    monitorCancelled, \* monitorCancel() was called
    vmCloses,         \* number of vm.Close() calls
    pret              \* value returned by Parallels.Run

pvars == <<ppc, pCtxDone, pdefers, attempts, conn, monitor, monitorCancelled,
           vmCloses, pret>>

VARIABLES
    fn,     \* the function applied on its own: its name ("off": none)
    arg,    \* the arguments it is applied to
    out     \* what it has computed so far

fvars == <<fn, arg, out>>

vars == <<cvars, pvars, fvars>>

\* the local states of the additional-container goroutines
ACs == BagToSet(ac)

\* ------------------------------------------------- RunContainerizedAgent

\* variant: the additional containers' context derived from the caller's
AdditionalContainersCtxFromCaller == acCancelled \/ ctxDone

\* additionalContainersCtx, additionalContainersCancel :=
\*     context.WithCancel(context.Background())
AdditionalContainersCtxDone == acCancelled

\* logReaderCtx, cancelLogReaderCtx := context.WithCancel(ctx)
LogReaderCtxDone == logCancelled \/ ctxDone

\* variant: the main container is deleted before the additional ones stop
DeferStepsDeleteFirst ==
    <<"ContainerDelete", "additionalContainersCancel",
      "additionalContainersWG.Wait", "cancelLogReaderCtx", "logReaderWg.Wait">>

\* the statements of the deferred teardown function, in program order
DeferSteps ==
    <<"additionalContainersCancel", "additionalContainersWG.Wait",
      "ContainerDelete", "cancelLogReaderCtx", "logReaderWg.Wait">>

\* variant: the additional container is not attached to the main container
SidecarNetworkDetached(connectToContainer) == <<"container:", NoID>>

\* fmt.Sprintf("container:%s", connectToContainer)
SidecarNetwork(connectToContainer) == <<"container:", connectToContainer>>
NoNetwork == <<>>

\* variant: pullHelper hands the backend's error through
PullHelperErrUnwrapped(err) == err

\* what pullHelper returns when backend.ImagePull fails
PullHelperErr(err) == Errorf(ErrAdditionalContainerFailed, err)

\* variant: a non-zero exit code or a runtime error of the main container
\* makes the function fail
MainWaitResultChecked(res) ==
    IF res.StatusCode # 0 \/ res.Error # ""
    THEN BackendErr("container exited")
    ELSE NilErr

\* case res := <-waitChan: logger.Debugf(...), then return nil
MainWaitResult(res) == NilErr

\* variant: the select statement swallows the errors it receives
SelectReturnNil(case, val) == NilErr

\* what each case of the select statement makes the function return
SelectReturn(case, val) ==
    CASE case = "waitChan" -> MainWaitResult(val)
      [] case = "errChan" -> val
      [] case = "additionalContainersErrChan" -> val

\* variant: a non-zero exit code of an additional container is a failure
AdditionalWaitResultChecked(res) ==
    IF res # 0
    THEN Errorf(ErrAdditionalContainerFailed, BackendErr("exit code"))
    ELSE NilErr

\* what runAdditionalContainer returns once waitChan delivered a result
AdditionalWaitResult(res) == NilErr

\* what runAdditionalContainer returns for a failed backend call
AdditionalFailed(err) == Errorf(ErrAdditionalContainerFailed, err)

\* variant: one warning for every port mapping that sets a host port
PortWarningsPerMapping(ports) ==
    Cardinality({k \in 1..Len(ports) : ports[k].HostPort # 0})

\* for _, portMapping := range additionalContainer.Ports {
\*     if portMapping.HostPort != 0 { logger.Warnf(...); break } }
\* the number of warnings the loop logs
PortWarnings(ports) ==
    IF \E k \in 1..Len(ports) : ports[k].HostPort # 0 THEN 1 ELSE 0

\* the local state of a goroutine running runAdditionalContainer; ports is
\* additionalContainer.Ports, warnings counts the unsupported-port-mapping
\* warnings it logged
InitAC == [pc |-> "unspawned", err |-> NilErr, net |-> NoNetwork,
           res |-> NoRes, deletes |-> 0, logged |-> FALSE,
           ports |-> <<>>, warnings |-> 0]

\* additionalContainer.Ports of a container that sets no host port
PortsWithoutHostPort == <<[ContainerPort |-> 80, HostPort |-> 0]>>

\* additionalContainer.Ports of a container that sets host ports
PortsWithHostPorts ==
    <<[ContainerPort |-> 80, HostPort |-> 0],
      [ContainerPort |-> 443, HostPort |-> 8443],
      [ContainerPort |-> 8080, HostPort |-> 8080]>>

InitContainer ==
    /\ pc = "SystemInfo"
    /\ deferStep = 0
    /\ ctxDone = FALSE
    /\ nAC \in 0..MaxAdditional
    /\ noCleanup \in BOOLEAN
    /\ contID = NoID
    /\ mainStarted = FALSE
    /\ acCancelled = FALSE
    /\ acWG = 0
    /\ logCancelled = FALSE
    /\ logWG = 0
    /\ logReader = "none"
    /\ waiter = "none"
    /\ waitChan = <<>>
    /\ errChan = <<>>
    /\ acErrChan = <<>>
    /\ selected = "none"
    /\ ret = NilErr
    /\ mainDeletes = 0
    /\ mainLogged = FALSE
    /\ mainRes = <<>>
    /\ mainWarned = FALSE
    /\ deleteCtxDone = FALSE
    /\ ac = IF nAC = 0 THEN EmptyBag ELSE [s \in {InitAC} |-> nAC]
    /\ firstEvent = "none"

\* RunContainerizedAgent started with additional containers that all declare
\* the same port mappings, with or without host ports, and with cleanup on
InitContainerPorts ==
    /\ pc = "SystemInfo"
    /\ deferStep = 0
    /\ ctxDone = FALSE
    /\ nAC \in 0..MaxAdditional
    /\ noCleanup = FALSE
    /\ contID = NoID
    /\ mainStarted = FALSE
    /\ acCancelled = FALSE
    /\ acWG = 0
    /\ logCancelled = FALSE
    /\ logWG = 0
    /\ logReader = "none"
    /\ waiter = "none"
    /\ waitChan = <<>>
    /\ errChan = <<>>
    /\ acErrChan = <<>>
    /\ selected = "none"
    /\ ret = NilErr
    /\ mainDeletes = 0
    /\ mainLogged = FALSE
    /\ mainRes = <<>>
    /\ mainWarned = FALSE
    /\ deleteCtxDone = FALSE
    /\ \E ports \in {PortsWithoutHostPort, PortsWithHostPorts} :
          ac = IF nAC = 0 THEN EmptyBag
               ELSE [s \in {[InitAC EXCEPT !.ports = ports]} |-> nAC]
    /\ firstEvent = "none"

\* RunContainerizedAgent is not running
ContainerOff ==
    /\ pc = "off"
    /\ deferStep = 0
    /\ ctxDone = FALSE
    /\ nAC = 0
    /\ noCleanup = FALSE
    /\ contID = NoID
    /\ mainStarted = FALSE
    /\ acCancelled = FALSE
    /\ acWG = 0
    /\ logCancelled = FALSE
    /\ logWG = 0
    /\ logReader = "none"
    /\ waiter = "none"
    /\ waitChan = <<>>
    /\ errChan = <<>>
    /\ acErrChan = <<>>
    /\ selected = "none"
    /\ ret = NilErr
    /\ mainDeletes = 0
    /\ mainLogged = FALSE
    /\ mainRes = <<>>
    /\ mainWarned = FALSE
    /\ deleteCtxDone = FALSE
    /\ ac = EmptyBag
    /\ firstEvent = "none"

\* a return statement before the teardown was deferred
ReturnEarly(err) ==
    /\ ret' = err
    /\ pc' = "returned"

\* a return statement after the teardown was deferred
ReturnDeferred(err) ==
    /\ ret' = err
    /\ pc' = "defer"
    /\ deferStep' = 1
    /\ firstEvent' = "none"

\* the caller cancels ctx
CancelCtx ==
    /\ pc \notin {"returned", "off"}
    /\ ~ctxDone
    /\ ctxDone' = TRUE
    /\ UNCHANGED <<pc, deferStep, nAC, noCleanup, contID, mainStarted,
                   acCancelled, acWG, logCancelled, logWG, logReader, waiter,
                   waitChan, errChan, acErrChan, selected, ret, mainDeletes,
                   mainLogged, mainRes, mainWarned, deleteCtxDone, ac, firstEvent>>
    /\ UNCHANGED <<pvars, fvars>>

\* info, err := backend.SystemInfo(ctx), then the clamping of the quotas
SystemInfo ==
    /\ pc = "SystemInfo"
    /\ \/ /\ pc' = "pullHelper"
          /\ UNCHANGED ret
       \/ ReturnEarly(BackendErr("SystemInfo"))
    /\ UNCHANGED <<deferStep, ctxDone, nAC, noCleanup, contID, mainStarted,
                   acCancelled, acWG, logCancelled, logWG, logReader, waiter,
                   waitChan, errChan, acErrChan, selected, mainDeletes,
                   mainLogged, mainRes, mainWarned, deleteCtxDone, ac, firstEvent>>
    /\ UNCHANGED <<pvars, fvars>>

\* pullHelper(ctx, params.Image, ...)
PullMain ==
    /\ pc = "pullHelper"
    /\ \/ /\ pc' = "ContainerCreate"
          /\ UNCHANGED ret
       \/ ReturnEarly(PullHelperErr(BackendErr("ImagePull")))
    /\ UNCHANGED <<deferStep, ctxDone, nAC, noCleanup, contID, mainStarted,
                   acCancelled, acWG, logCancelled, logWG, logReader, waiter,
                   waitChan, errChan, acErrChan, selected, mainDeletes,
                   mainLogged, mainRes, mainWarned, deleteCtxDone, ac, firstEvent>>
    /\ UNCHANGED <<pvars, fvars>>

\* cont, err := backend.ContainerCreate(ctx, &input, ""); on success the
\* controls are created, logReaderWg.Add(1) and the teardown is deferred
ContainerCreate ==
    /\ pc = "ContainerCreate"
    /\ \/ /\ contID' = MainContainerID
          /\ logWG' = 1
          /\ pc' = "launch"
          /\ UNCHANGED ret
       \/ /\ ReturnEarly(BackendErr("ContainerCreate"))
          /\ UNCHANGED <<contID, logWG>>
    /\ UNCHANGED <<deferStep, ctxDone, nAC, noCleanup, mainStarted,
                   acCancelled, acWG, logCancelled, logReader, waiter,
                   waitChan, errChan, acErrChan, selected, mainDeletes,
                   mainLogged, mainRes, mainWarned, deleteCtxDone, ac, firstEvent>>
    /\ UNCHANGED <<pvars, fvars>>

Unspawned == {s \in ACs : s.pc = "unspawned"}

\* one goroutine moves from local state s to local state t
Move(s, t) == ac' = (ac (-) SetToBag({s})) (+) SetToBag({t})

\* one iteration of the loop that starts the additional containers:
\* additionalContainersWG.Add(1); go func() { ... }()
LaunchAdditional ==
    /\ pc = "launch"
    /\ \E s \in Unspawned : Move(s, [s EXCEPT !.pc = "pullHelper"])
    /\ acWG' = acWG + 1
    /\ UNCHANGED <<pc, deferStep, ctxDone, nAC, noCleanup, contID, mainStarted,
                   acCancelled, logCancelled, logWG, logReader, waiter,
                   waitChan, errChan, acErrChan, selected, ret, mainDeletes,
                   mainLogged, mainRes, mainWarned, deleteCtxDone, firstEvent>>
    /\ UNCHANGED <<pvars, fvars>>

\* backend.ContainerStart(ctx, cont.ID)
ContainerStart ==
    /\ pc = "launch"
    /\ Unspawned = {}
    /\ \/ /\ mainStarted' = TRUE
          /\ pc' = "ContainerLogs"
          /\ UNCHANGED <<ret, deferStep, firstEvent>>
       \/ /\ ReturnDeferred(BackendErr("ContainerStart"))
          /\ UNCHANGED mainStarted
    /\ UNCHANGED <<ctxDone, nAC, noCleanup, contID,
                   acCancelled, acWG, logCancelled, logWG, logReader, waiter,
                   waitChan, errChan, acErrChan, selected, mainDeletes,
                   mainLogged, mainRes, mainWarned, deleteCtxDone, ac>>
    /\ UNCHANGED <<pvars, fvars>>

\* logChan, err := backend.ContainerLogs(logReaderCtx, cont.ID); on success
\* the log reader goroutine is started
ContainerLogs ==
    /\ pc = "ContainerLogs"
    /\ \/ /\ logReader' = "reading"
          /\ pc' = "ContainerWait"
          /\ UNCHANGED <<ret, deferStep, firstEvent>>
       \/ /\ ReturnDeferred(BackendErr("ContainerLogs"))
          /\ UNCHANGED logReader
    /\ UNCHANGED <<ctxDone, nAC, noCleanup, contID, mainStarted,
                   acCancelled, acWG, logCancelled, logWG, waiter,
                   waitChan, errChan, acErrChan, selected, mainDeletes,
                   mainLogged, mainRes, mainWarned, deleteCtxDone, ac>>
    /\ UNCHANGED <<pvars, fvars>>

\* the log reader goroutine: logChan is closed, the range loop ends,
\* logReaderWg.Done()
LogReaderFinish ==
    /\ logReader = "reading"
    /\ LogReaderCtxDone \/ waiter = "posted"
    /\ logReader' = "done"
    /\ logWG' = logWG - 1
    /\ UNCHANGED <<pc, deferStep, ctxDone, nAC, noCleanup, contID, mainStarted,
                   acCancelled, acWG, logCancelled, waiter,
                   waitChan, errChan, acErrChan, selected, ret, mainDeletes,
                   mainLogged, mainRes, mainWarned, deleteCtxDone, ac, firstEvent>>
    /\ UNCHANGED <<pvars, fvars>>

\* waitChan, errChan := backend.ContainerWait(ctx, cont.ID)
ContainerWait ==
    /\ pc = "ContainerWait"
    /\ pc' = "select"
    /\ waiter' = "pending"
    /\ UNCHANGED <<deferStep, ctxDone, nAC, noCleanup, contID, mainStarted,
                   acCancelled, acWG, logCancelled, logWG, logReader,
                   waitChan, errChan, acErrChan, selected, ret, mainDeletes,
                   mainLogged, mainRes, mainWarned, deleteCtxDone, ac, firstEvent>>
    /\ UNCHANGED <<pvars, fvars>>

Occurs(event) ==
    IF pc \in {"defer", "returned"} THEN "none"
    ELSE IF firstEvent = "none" THEN event
    ELSE firstEvent

\* the main container reaches a terminal wait state
MainExit ==
    /\ waiter = "pending"
    /\ \E res \in WaitResults : waitChan' = <<res>>
    /\ waiter' = "posted"
    /\ firstEvent' = Occurs("waitChan")
    /\ UNCHANGED <<pc, deferStep, ctxDone, nAC, noCleanup, contID, mainStarted,
                   acCancelled, acWG, logCancelled, logWG, logReader,
                   errChan, acErrChan, selected, ret, mainDeletes,
                   mainLogged, mainRes, mainWarned, deleteCtxDone, ac>>
    /\ UNCHANGED <<pvars, fvars>>

\* the backend reports a wait error
MainWaitErr ==
    /\ waiter = "pending"
    /\ errChan' = <<BackendErr("ContainerWait")>>
    /\ waiter' = "posted"
    /\ firstEvent' = Occurs("errChan")
    /\ UNCHANGED <<pc, deferStep, ctxDone, nAC, noCleanup, contID, mainStarted,
                   acCancelled, acWG, logCancelled, logWG, logReader,
                   waitChan, acErrChan, selected, ret, mainDeletes,
                   mainLogged, mainRes, mainWarned, deleteCtxDone, ac>>
    /\ UNCHANGED <<pvars, fvars>>

\* select { case res := <-waitChan: ... }; return nil
SelectWait ==
    /\ pc = "select"
    /\ waitChan # <<>>
    /\ waitChan' = <<>>
    /\ selected' = "waitChan"
    /\ mainRes' = <<Head(waitChan)>>
    /\ ReturnDeferred(SelectReturn("waitChan", Head(waitChan)))
    /\ UNCHANGED <<ctxDone, nAC, noCleanup, contID, mainStarted,
                   acCancelled, acWG, logCancelled, logWG, logReader, waiter,
                   errChan, acErrChan, mainDeletes,
                   mainLogged, mainWarned, deleteCtxDone, ac>>
    /\ UNCHANGED <<pvars, fvars>>

\* select { case err := <-errChan: return err }
SelectErr ==
    /\ pc = "select"
    /\ errChan # <<>>
    /\ errChan' = <<>>
    /\ selected' = "errChan"
    /\ ReturnDeferred(SelectReturn("errChan", Head(errChan)))
    /\ UNCHANGED <<ctxDone, nAC, noCleanup, contID, mainStarted,
                   acCancelled, acWG, logCancelled, logWG, logReader, waiter,
                   waitChan, acErrChan, mainDeletes,
                   mainLogged, mainRes, mainWarned, deleteCtxDone, ac>>
    /\ UNCHANGED <<pvars, fvars>>

\* select { case acErr := <-additionalContainersErrChan: return acErr }
SelectAdditional ==
    /\ pc = "select"
    /\ acErrChan # <<>>
    /\ acErrChan' = Tail(acErrChan)
    /\ selected' = "additionalContainersErrChan"
    /\ ReturnDeferred(SelectReturn("additionalContainersErrChan", Head(acErrChan)))
    /\ UNCHANGED <<ctxDone, nAC, noCleanup, contID, mainStarted,
                   acCancelled, acWG, logCancelled, logWG, logReader, waiter,
                   waitChan, errChan, mainDeletes,
                   mainLogged, mainRes, mainWarned, deleteCtxDone, ac>>
    /\ UNCHANGED <<pvars, fvars>>

\* ------------------------------------------- the deferred teardown function

\* variant: ContainerDelete is given the context of the function
CleanupCtxFromParent(parentDone) == parentDone

\* backend.ContainerDelete(context.Background(), cont.ID): whether the context
\* given to ContainerDelete is cancelled when the function's own context is
CleanupCtxDone(parentDone) == FALSE

\* variant: a failed ContainerDelete replaces the result
CleanupErrReturned(result, err) == IF err # NilErr THEN err ELSE result

\* if err != nil { logger.Warnf("error while removing container: %v", err) }:
\* the result of the function after a ContainerDelete that returned err
AfterCleanupErr(result, err) == result

\* what backend.ContainerDelete may return
DeleteOutcomes == {NilErr, BackendErr("ContainerDelete")}

InDefer(step) ==
    /\ pc = "defer"
    /\ deferStep \in 1..Len(DeferSteps)
    /\ DeferSteps[deferStep] = step

\* a statement of the deferred function was executed (res, scoped to the
\* select statement of the function body, is gone by then)
DeferAdvance ==
    /\ mainRes' = <<>>
    /\ IF deferStep < Len(DeferSteps)
       THEN /\ deferStep' = deferStep + 1
            /\ pc' = pc
       ELSE /\ deferStep' = 0
            /\ pc' = "returned"

\* additionalContainersCancel()
DeferCancelAdditional ==
    /\ InDefer("additionalContainersCancel")
    /\ acCancelled' = TRUE
    /\ DeferAdvance
    /\ UNCHANGED <<ctxDone, nAC, noCleanup, contID, mainStarted,
                   acWG, logCancelled, logWG, logReader, waiter,
                   waitChan, errChan, acErrChan, selected, ret, mainDeletes,
                   mainLogged, mainWarned, deleteCtxDone, ac, firstEvent>>
    /\ UNCHANGED <<pvars, fvars>>

\* additionalContainersWG.Wait()
DeferWaitAdditional ==
    /\ InDefer("additionalContainersWG.Wait")
    /\ acWG = 0
    /\ DeferAdvance
    /\ UNCHANGED <<ctxDone, nAC, noCleanup, contID, mainStarted,
                   acCancelled, acWG, logCancelled, logWG, logReader, waiter,
                   waitChan, errChan, acErrChan, selected, ret, mainDeletes,
                   mainLogged, mainWarned, deleteCtxDone, ac, firstEvent>>
    /\ UNCHANGED <<pvars, fvars>>

\* if config.ContainerOptions.NoCleanup { logger.Infof(...) }
\* else { backend.ContainerDelete(context.Background(), cont.ID) }
DeferDeleteMain ==
    /\ InDefer("ContainerDelete")
    /\ IF noCleanup
       THEN /\ mainLogged' = TRUE
            /\ UNCHANGED <<mainDeletes, mainWarned, deleteCtxDone, ret>>
       ELSE /\ mainDeletes' = mainDeletes + 1
            /\ deleteCtxDone' = (deleteCtxDone \/ CleanupCtxDone(ctxDone))
            /\ \E err \in DeleteOutcomes :
                  /\ mainWarned' = (err # NilErr)
                  /\ ret' = AfterCleanupErr(ret, err)
            /\ UNCHANGED mainLogged
    /\ DeferAdvance
    /\ UNCHANGED <<ctxDone, nAC, noCleanup, contID, mainStarted,
                   acCancelled, acWG, logCancelled, logWG, logReader, waiter,
                   waitChan, errChan, acErrChan, selected,
                   ac, firstEvent>>
    /\ UNCHANGED <<pvars, fvars>>

\* cancelLogReaderCtx()
DeferCancelLogReader ==
    /\ InDefer("cancelLogReaderCtx")
    /\ logCancelled' = TRUE
    /\ DeferAdvance
    /\ UNCHANGED <<ctxDone, nAC, noCleanup, contID, mainStarted,
                   acCancelled, acWG, logWG, logReader, waiter,
                   waitChan, errChan, acErrChan, selected, ret, mainDeletes,
                   mainLogged, mainWarned, deleteCtxDone, ac, firstEvent>>
    /\ UNCHANGED <<pvars, fvars>>

\* logReaderWg.Wait()
DeferWaitLogReader ==
    /\ InDefer("logReaderWg.Wait")
    /\ logWG = 0
    /\ DeferAdvance
    /\ UNCHANGED <<ctxDone, nAC, noCleanup, contID, mainStarted,
                   acCancelled, acWG, logCancelled, logWG, logReader, waiter,
                   waitChan, errChan, acErrChan, selected, ret, mainDeletes,
                   mainLogged, mainWarned, deleteCtxDone, ac, firstEvent>>
    /\ UNCHANGED <<pvars, fvars>>

\* ------------------------------------------------ runAdditionalContainer

ACUnchanged ==
    UNCHANGED <<pc, deferStep, ctxDone, nAC, noCleanup, contID, mainStarted,
                acCancelled, logCancelled, logWG, logReader, waiter,
                waitChan, errChan, selected, ret, mainDeletes, mainLogged,
                mainRes, mainWarned, pvars, fvars>>

\* pullHelper(ctx, additionalContainer.Image, ...)
AdditionalPull ==
    /\ \E s \in ACs :
          /\ s.pc = "pullHelper"
          /\ \/ Move(s, [s EXCEPT !.pc = "ContainerCreate"])
             \/ Move(s, [s EXCEPT !.pc = "send",
                                  !.err = PullHelperErr(BackendErr("ImagePull"))])
    /\ ACUnchanged
    /\ UNCHANGED <<acWG, acErrChan, firstEvent, deleteCtxDone>>

\* cont, err := backend.ContainerCreate(ctx, input, "") with
\* Network: fmt.Sprintf("container:%s", connectToContainer); on success the
\* cleanup is deferred and the port mappings are looked through for host ports
AdditionalCreate ==
    /\ \E s \in ACs :
          /\ s.pc = "ContainerCreate"
          /\ \/ Move(s, [s EXCEPT !.pc = "ContainerStart",
                                  !.net = SidecarNetwork(contID),
                                  !.warnings = @ + PortWarnings(s.ports)])
             \/ Move(s, [s EXCEPT !.pc = "send",
                                  !.err = AdditionalFailed(BackendErr("ContainerCreate"))])
    /\ ACUnchanged
    /\ UNCHANGED <<acWG, acErrChan, firstEvent, deleteCtxDone>>

\* backend.ContainerStart(ctx, cont.ID)
AdditionalStart ==
    /\ \E s \in ACs :
          /\ s.pc = "ContainerStart"
          /\ \/ Move(s, [s EXCEPT !.pc = "ContainerWait"])
             \/ Move(s, [s EXCEPT !.pc = "cleanup",
                                  !.err = AdditionalFailed(BackendErr("ContainerStart"))])
    /\ ACUnchanged
    /\ UNCHANGED <<acWG, acErrChan, firstEvent, deleteCtxDone>>

\* select { case res := <-waitChan: ... }; return nil
AdditionalExit ==
    /\ \E s \in ACs, code \in ExitCodes :
          /\ s.pc = "ContainerWait"
          /\ Move(s, [s EXCEPT !.pc = "cleanup",
                               !.res = code,
                               !.err = AdditionalWaitResult(code)])
    /\ ACUnchanged
    /\ UNCHANGED <<acWG, acErrChan, firstEvent, deleteCtxDone>>

\* select { case err := <-errChan: return fmt.Errorf(...) }
AdditionalWaitErr ==
    /\ \E s \in ACs :
          /\ s.pc = "ContainerWait"
          /\ Move(s, [s EXCEPT !.pc = "cleanup",
                               !.err = AdditionalFailed(BackendErr("ContainerWait"))])
    /\ ACUnchanged
    /\ UNCHANGED <<acWG, acErrChan, firstEvent, deleteCtxDone>>

\* the pending ContainerWait(ctx, ...) is aborted because ctx, which is
\* additionalContainersCtx, is cancelled: errChan delivers the context's error
AdditionalWaitCancelled ==
    /\ AdditionalContainersCtxDone
    /\ \E s \in ACs :
          /\ s.pc = "ContainerWait"
          /\ Move(s, [s EXCEPT !.pc = "cleanup",
                               !.err = AdditionalFailed(BackendErr(ContextCanceled))])
    /\ ACUnchanged
    /\ UNCHANGED <<acWG, acErrChan, firstEvent, deleteCtxDone>>

\* the deferred cleanup of runAdditionalContainer (res is out of scope by now)
AdditionalCleanup ==
    /\ \E s \in ACs :
          /\ s.pc = "cleanup"
          /\ IF noCleanup
             THEN /\ Move(s, [s EXCEPT !.pc = "send", !.res = NoRes,
                                      !.logged = TRUE])
                  /\ UNCHANGED deleteCtxDone
             ELSE /\ \E err \in DeleteOutcomes :
                        Move(s, [s EXCEPT !.pc = "send", !.res = NoRes,
                                          !.deletes = @ + 1,
                                          !.err = AfterCleanupErr(@, err)])
                  /\ deleteCtxDone' =
                        (deleteCtxDone \/ CleanupCtxDone(AdditionalContainersCtxDone))
    /\ ACUnchanged
    /\ UNCHANGED <<acWG, acErrChan, firstEvent>>

\* variant: an unbuffered channel, make(chan error)
ErrChanUnbuffered(n) == 0

\* additionalContainersErrChan :=
\*     make(chan error, len(params.AdditionalContainers))
ErrChanCap(n) == n

\* a send on additionalContainersErrChan can proceed: the buffer has room
\* (nothing receives outside the select statement)
ErrChanHasRoom == Len(acErrChan) < ErrChanCap(nAC)

\* if err := runAdditionalContainer(...); err != nil {
\*     additionalContainersErrChan <- err }
\* err is scoped to the if statement
AdditionalSend ==
    /\ \E s \in ACs :
          /\ s.pc = "send"
          /\ IF s.err # NilErr
             THEN /\ ErrChanHasRoom
                  /\ acErrChan' = Append(acErrChan, s.err)
                  /\ firstEvent' = Occurs("additionalContainersErrChan")
             ELSE UNCHANGED <<acErrChan, firstEvent>>
          /\ Move(s, [s EXCEPT !.pc = "wgDone", !.err = NilErr])
    /\ ACUnchanged
    /\ UNCHANGED <<acWG, deleteCtxDone>>

\* additionalContainersWG.Done()
AdditionalDone ==
    /\ \E s \in ACs :
          /\ s.pc = "wgDone"
          /\ Move(s, [s EXCEPT !.pc = "done"])
    /\ acWG' = acWG - 1
    /\ ACUnchanged
    /\ UNCHANGED <<acErrChan, firstEvent, deleteCtxDone>>

NextContainer ==
    \/ CancelCtx
    \/ SystemInfo
    \/ PullMain
    \/ ContainerCreate
    \/ LaunchAdditional
    \/ ContainerStart
    \/ ContainerLogs
    \/ LogReaderFinish
    \/ ContainerWait
    \/ MainExit
    \/ MainWaitErr
    \/ SelectWait
    \/ SelectErr
    \/ SelectAdditional
    \/ DeferCancelAdditional
    \/ DeferWaitAdditional
    \/ DeferDeleteMain
    \/ DeferCancelLogReader
    \/ DeferWaitLogReader
    \/ AdditionalPull
    \/ AdditionalCreate
    \/ AdditionalStart
    \/ AdditionalExit
    \/ AdditionalWaitErr
    \/ AdditionalWaitCancelled
    \/ AdditionalCleanup
    \/ AdditionalSend
    \/ AdditionalDone

\* ----------------------------------------------------------- Parallels.Run

\* RunContainerizedAgent runs, Parallels.Run does not
ParallelsOff ==
    /\ ppc = "off"
    /\ pCtxDone = FALSE
    /\ pdefers = <<>>
    /\ attempts = 0
    /\ conn = "none"
    /\ monitor = "none"
    /\ monitorCancelled = FALSE
    /\ vmCloses = 0
    /\ pret = NilErr

InitParallels ==
    /\ ppc = "NewVMClonedFrom"
    /\ pCtxDone = FALSE
    /\ pdefers = <<>>
    /\ attempts = 0
    /\ conn = "none"
    /\ monitor = "none"
    /\ monitorCancelled = FALSE
    /\ vmCloses = 0
    /\ pret = NilErr

\* variant: the deferred vm.Close() is missing
DeferVMCloseMissing(defers) == defers

\* defer vm.Close()
DeferVMClose(defers) == <<"vm.Close">> \o defers

\* variant: the deferred monitorCancel() is missing
DeferMonitorCancelMissing(defers) == defers

\* defer monitorCancel()
DeferMonitorCancel(defers) == <<"monitorCancel">> \o defers

\* monitorCtx, monitorCancel := context.WithCancel(ctx)
MonitorCtxDone == monitorCancelled \/ pCtxDone

\* fmt.Errorf("%w: failed to ...: %v", ErrFailed, ..., err)
ParallelsFailed(phase) == Errorf(ErrFailed, BackendErr(phase))

\* a return statement of Parallels.Run: the deferred calls run next
PReturn(err) ==
    /\ pret' = err
    /\ ppc' = "unwind"

\* the caller cancels the context passed to Parallels.Run
CancelRunCtx ==
    /\ ppc \notin {"off", "returned"}
    /\ ~pCtxDone
    /\ pCtxDone' = TRUE
    /\ UNCHANGED <<ppc, pdefers, attempts, conn, monitor, monitorCancelled,
                   vmCloses, pret>>
    /\ UNCHANGED <<cvars, fvars>>

\* vm, err := NewVMClonedFrom(ctx, parallels.vmImage); defer vm.Close()
NewVMClonedFrom ==
    /\ ppc = "NewVMClonedFrom"
    /\ \/ /\ ppc' = "RetrieveIP"
          /\ pdefers' = DeferVMClose(pdefers)
          /\ UNCHANGED pret
       \/ /\ PReturn(ParallelsFailed("NewVMClonedFrom"))
          /\ UNCHANGED pdefers
    /\ UNCHANGED <<pCtxDone, attempts, conn, monitor, monitorCancelled, vmCloses>>
    /\ UNCHANGED <<cvars, fvars>>

\* one attempt of retry.Do(func() error { ip, err = vm.RetrieveIP(ctx) ... })
RetrieveIP ==
    /\ ppc = "RetrieveIP"
    /\ \/ /\ ppc' = "DialContext"
          /\ UNCHANGED <<attempts, pret>>
       \/ /\ attempts' = attempts + 1
          /\ IF attempts + 1 < RetryAttempts
             THEN UNCHANGED <<ppc, pret>>
             ELSE PReturn(ParallelsFailed("RetrieveIP"))
    /\ UNCHANGED <<pCtxDone, pdefers, conn, monitor, monitorCancelled, vmCloses>>
    /\ UNCHANGED <<cvars, fvars>>

\* netConn, err := dialer.DialContext(ctx, "tcp", addr)
\* (DialContext fails once ctx is cancelled)
DialContext ==
    /\ ppc = "DialContext"
    /\ \/ /\ ~pCtxDone
          /\ conn' = "open"
          /\ ppc' = "NewClientConn"
          /\ UNCHANGED pret
       \/ /\ PReturn(ParallelsFailed("DialContext"))
          /\ UNCHANGED conn
    /\ UNCHANGED <<pCtxDone, pdefers, attempts, monitor, monitorCancelled, vmCloses>>
    /\ UNCHANGED <<cvars, fvars>>

\* an operation on the connection that the peer completes or fails
RemoteOp(op, next) ==
    /\ conn = "open"
    /\ \/ /\ ppc' = next
          /\ UNCHANGED pret
       \/ PReturn(ParallelsFailed(op))
    /\ UNCHANGED <<pCtxDone, pdefers, attempts, conn, monitor, monitorCancelled,
                   vmCloses>>
    /\ UNCHANGED <<cvars, fvars>>

\* an operation on the connection fails because the connection was closed
RemoteOpAborted(op) ==
    /\ conn = "closed"
    /\ PReturn(ParallelsFailed(op))
    /\ UNCHANGED <<pCtxDone, pdefers, attempts, conn, monitor, monitorCancelled,
                   vmCloses>>
    /\ UNCHANGED <<cvars, fvars>>

\* sshConn, chans, reqs, err := ssh.NewClientConn(netConn, addr, sshConfig)
\* (a failed handshake closes netConn inside ssh.NewClientConn)
NewClientConn ==
    /\ ppc = "NewClientConn"
    /\ conn = "open"
    /\ \/ /\ ppc' = "NewClient"
          /\ UNCHANGED <<pret, conn>>
       \/ /\ PReturn(ParallelsFailed("NewClientConn"))
          /\ conn' = "closed"
    /\ UNCHANGED <<pCtxDone, pdefers, attempts, monitor, monitorCancelled,
                   vmCloses>>
    /\ UNCHANGED <<cvars, fvars>>

\* cli := ssh.NewClient(...); go func() { <-monitorCtx.Done(); cli.Close() }();
\* defer monitorCancel()
NewClient ==
    /\ ppc = "NewClient"
    /\ monitor' = "waiting"
    /\ pdefers' = DeferMonitorCancel(pdefers)
    /\ ppc' = "uploadAgent"
    /\ UNCHANGED <<pCtxDone, attempts, conn, monitorCancelled, vmCloses, pret>>
    /\ UNCHANGED <<cvars, fvars>>

\* the monitor goroutine: <-monitorCtx.Done(); _ = cli.Close()
MonitorClose ==
    /\ monitor = "waiting"
    /\ MonitorCtxDone
    /\ monitor' = "done"
    /\ conn' = "closed"
    /\ UNCHANGED <<ppc, pCtxDone, pdefers, attempts, monitorCancelled,
                   vmCloses, pret>>
    /\ UNCHANGED <<cvars, fvars>>

\* remoteAgentPath, err := uploadAgent(ctx, cli, ...)
UploadAgent ==
    /\ ppc = "uploadAgent"
    /\ RemoteOp("uploadAgent", "NewSession")

\* sess, err := cli.NewSession()
NewSession ==
    /\ ppc = "NewSession"
    /\ RemoteOp("NewSession", "Shell")

\* err = sess.Shell()
Shell ==
    /\ ppc = "Shell"
    /\ RemoteOp("Shell", "WriteTimeSync")

\* stdinBuf.Write([]byte(TimeSyncCommand(time.Now().UTC())))
WriteTimeSync ==
    /\ ppc = "WriteTimeSync"
    /\ RemoteOp("WriteTimeSync", "WriteCommand")

\* stdinBuf.Write([]byte(strings.Join(command, " ") + "\nexit\n"))
WriteCommand ==
    /\ ppc = "WriteCommand"
    /\ RemoteOp("WriteCommand", "Wait")

\* err = sess.Wait(); return nil when it succeeds
SessionWait ==
    /\ ppc = "Wait"
    /\ conn = "open"
    /\ \/ PReturn(NilErr)
       \/ PReturn(ParallelsFailed("Wait"))
    /\ UNCHANGED <<pCtxDone, pdefers, attempts, conn, monitor, monitorCancelled,
                   vmCloses>>
    /\ UNCHANGED <<cvars, fvars>>

RemoteOps == {"uploadAgent", "NewSession", "Shell", "WriteTimeSync",
              "WriteCommand", "Wait"}

\* any operation in flight on a connection the monitor closed
ConnClosedUnderOp ==
    /\ ppc \in RemoteOps
    /\ RemoteOpAborted(ppc)

\* deferred monitorCancel() runs
UnwindMonitorCancel ==
    /\ ppc = "unwind"
    /\ pdefers # <<>>
    /\ Head(pdefers) = "monitorCancel"
    /\ monitorCancelled' = TRUE
    /\ pdefers' = Tail(pdefers)
    /\ UNCHANGED <<ppc, pCtxDone, attempts, conn, monitor, vmCloses, pret>>
    /\ UNCHANGED <<cvars, fvars>>

\* deferred vm.Close() runs
UnwindVMClose ==
    /\ ppc = "unwind"
    /\ pdefers # <<>>
    /\ Head(pdefers) = "vm.Close"
    /\ vmCloses' = vmCloses + 1
    /\ pdefers' = Tail(pdefers)
    /\ UNCHANGED <<ppc, pCtxDone, attempts, conn, monitor, monitorCancelled, pret>>
    /\ UNCHANGED <<cvars, fvars>>

\* Parallels.Run hands control back to its caller
RunReturns ==
    /\ ppc = "unwind"
    /\ pdefers = <<>>
    /\ ppc' = "returned"
    /\ UNCHANGED <<pCtxDone, pdefers, attempts, conn, monitor, monitorCancelled,
                   vmCloses, pret>>
    /\ UNCHANGED <<cvars, fvars>>

NextParallels ==
    \/ CancelRunCtx
    \/ NewVMClonedFrom
    \/ RetrieveIP
    \/ DialContext
    \/ NewClientConn
    \/ NewClient
    \/ MonitorClose
    \/ UploadAgent
    \/ NewSession
    \/ Shell
    \/ WriteTimeSync
    \/ WriteCommand
    \/ SessionWait
    \/ ConnClosedUnderOp
    \/ UnwindMonitorCancel
    \/ UnwindVMClose
    \/ RunReturns

\* ---------------------------------------------------------- specification

\* no function is applied on its own
FnOff ==
    /\ fn = "off"
    /\ arg = <<>>
    /\ out = <<>>

Init ==
    \/ InitContainer /\ ParallelsOff /\ FnOff
    \/ ContainerOff /\ InitParallels /\ FnOff

Next ==
    \/ NextContainer
    \/ NextParallels

Spec == Init /\ [][Next]_vars

\* Scheduling: every goroutine that can take a step of its own eventually
\* takes it, every backend call returns, the log channel is closed once its
\* context is cancelled, and an operation on a closed connection fails.  No
\* assumption is made on the caller, on containers exiting by themselves or
\* on the peer of an open connection.
Fairness ==
    /\ WF_vars(LaunchAdditional)
    /\ WF_vars(ContainerStart)
    /\ WF_vars(ContainerLogs)
    /\ WF_vars(ContainerWait)
    /\ WF_vars(LogReaderFinish /\ LogReaderCtxDone)
    /\ WF_vars(SelectWait \/ SelectErr \/ SelectAdditional)
    /\ WF_vars(DeferCancelAdditional)
    /\ WF_vars(DeferWaitAdditional)
    /\ WF_vars(DeferDeleteMain)
    /\ WF_vars(DeferCancelLogReader)
    /\ WF_vars(DeferWaitLogReader)
    /\ WF_vars(AdditionalPull)
    /\ WF_vars(AdditionalCreate)
    /\ WF_vars(AdditionalStart)
    /\ WF_vars(AdditionalWaitCancelled)
    /\ WF_vars(AdditionalCleanup)
    /\ WF_vars(AdditionalSend)
    /\ WF_vars(AdditionalDone)
    /\ WF_vars(NewClient)
    /\ WF_vars(MonitorClose)
    /\ WF_vars(ConnClosedUnderOp)
    /\ WF_vars(UnwindMonitorCancel)
    /\ WF_vars(UnwindVMClose)
    /\ WF_vars(RunReturns)

\* the same program, started with additional containers that declare ports
InitPorts ==
    \/ InitContainerPorts /\ ParallelsOff /\ FnOff
    \/ ContainerOff /\ InitParallels /\ FnOff

PortsSpec == InitPorts /\ [][Next]_vars

FairSpec == Spec /\ Fairness

\* --------------------------------------- functions applied on their own

ErrFailedToCreateInstance == "failed to create instance"
ErrUnsupportedInstance == "unsupported instance type"

\* fmt.Errorf("%w: ...", sentinel)
SentinelErr(sentinel, text) == [wraps |-> sentinel, cause |-> text]

\* strings.ToLower; strings are sequences of characters where their letters
\* matter
ToLower(str) ==
    LET upper == <<"A", "B", "C", "D", "E", "F", "G", "H", "I", "J", "K", "L",
                   "M", "N", "O", "P", "Q", "R", "S", "T", "U", "V", "W", "X",
                   "Y", "Z">>
        lower == <<"a", "b", "c", "d", "e", "f", "g", "h", "i", "j", "k", "l",
                   "m", "n", "o", "p", "q", "r", "s", "t", "u", "v", "w", "x",
                   "y", "z">>
    IN  [k \in 1..Len(str) |->
            IF \E n \in 1..Len(upper) : upper[n] = str[k]
            THEN lower[CHOOSE n \in 1..Len(upper) : upper[n] = str[k]]
            ELSE str[k]]

\* the values of api.Platform
Platforms == {"Platform_LINUX", "Platform_DARWIN", "Platform_WINDOWS"}

\* instance.Platform.String()
PlatformString(platform) ==
    CASE platform = "Platform_LINUX" -> <<"L", "I", "N", "U", "X">>
      [] platform = "Platform_DARWIN" -> <<"D", "A", "R", "W", "I", "N">>
      [] platform = "Platform_WINDOWS" -> <<"W", "I", "N", "D", "O", "W", "S">>

\* the values of runtime.GOOS tried
HostOSes ==
    {<<"l", "i", "n", "u", "x">>, <<"d", "a", "r", "w", "i", "n">>,
     <<"w", "i", "n", "d", "o", "w", "s">>}

\* the messages an instance descriptor may carry; "Other" is a message of a
\* type NewFromProto does not know
KnownMessages ==
    {"ContainerInstance", "PipeInstance", "PrebuiltImageInstance",
     "PersistentWorkerInstance", "DockerBuilder"}

\* anyInstance: <<>> is the nil pointer; valid tells whether
\* ptypes.UnmarshalAny succeeds.  Platform is the platform of a container
\* instance or of a docker builder and the platform the isolation of a
\* persistent worker requires.
Descriptors ==
    {<<>>} \cup
    {<<d>> : d \in [valid : BOOLEAN, Message : KnownMessages \cup {"Other"},
                     Platform : Platforms]}

\* what NewFromProto returns: the instance (its type, "nil" for none) and
\* the error
Result(instance, err) == [instance |-> instance, err |-> err]

\* PipeStagesFromCommands(commands): the stages derived from the command list
PipeStagesFromCommands(commands) == Result("stages", NilErr)

\* persistentworker.New(isolation, logger): the isolation selector; it fails
\* unless the platform the isolation requires is the host's.  An isolation of
\* type None (required = <<>>) requires none.
PersistentWorkerNew(required, goos) ==
    IF required # <<>> /\ ToLower(PlatformString(required[1])) # goos
    THEN Result("nil", SentinelErr(ErrFailedToCreateInstance, "isolation"))
    ELSE Result("persistentworker", NilErr)

\* instanceOS := strings.ToLower(instance.Platform.String())
DockerBuilderOS(platform) == ToLower(PlatformString(platform))

\* variant: a docker builder is created whatever its platform
DockerBuilderUnchecked(instance, goos) == PersistentWorkerNew(<<>>, goos)

\* case *api.DockerBuilder
DockerBuilder(instance, goos) ==
    IF goos # DockerBuilderOS(instance.Platform)
    THEN Result("nil", SentinelErr(ErrFailedToCreateInstance, "cannot run"))
    ELSE PersistentWorkerNew(<<>>, goos)

\* case *api.ContainerInstance
ContainerInstance(instance) ==
    IF instance.Platform \in {"Platform_LINUX", "Platform_WINDOWS"}
    THEN Result("ContainerInstance", NilErr)
    ELSE Result("nil", SentinelErr(ErrFailedToCreateInstance,
                                   "unsupported container instance platform"))

\* case *api.PipeInstance
PipeInstance(instance, commands) ==
    LET stages == PipeStagesFromCommands(commands)
    IN  IF stages.err # NilErr
        THEN Result("nil", stages.err)
        ELSE Result("PipeInstance", NilErr)

\* variant: an unknown message is reported as a failed creation
UnsupportedInstanceAsFailed ==
    Result("nil", SentinelErr(ErrFailedToCreateInstance, "%T"))

\* default: return nil, fmt.Errorf("%w: %T", ErrUnsupportedInstance, instance)
UnsupportedInstance == Result("nil", SentinelErr(ErrUnsupportedInstance, "%T"))

NewFromProto(anyInstance, commands, goos) ==
    IF anyInstance = <<>>
    THEN Result("nil", SentinelErr(ErrFailedToCreateInstance, "got nil instance"))
    ELSE LET instance == anyInstance[1]
         IN  IF ~instance.valid
             THEN Result("nil", SentinelErr(ErrFailedToCreateInstance,
                                            "failed to unmarshal"))
             ELSE CASE instance.Message = "ContainerInstance" ->
                         ContainerInstance(instance)
                    [] instance.Message = "PipeInstance" ->
                         PipeInstance(instance, commands)
                    [] instance.Message = "PrebuiltImageInstance" ->
                         Result("PrebuiltInstance", NilErr)
                    [] instance.Message = "PersistentWorkerInstance" ->
                         PersistentWorkerNew(<<instance.Platform>>, goos)
                    [] instance.Message = "DockerBuilder" ->
                         DockerBuilder(instance, goos)
                    [] OTHER -> UnsupportedInstance

\* neither orchestrator runs: a function is applied to arguments
FnInitOf(name, args) ==
    /\ ContainerOff
    /\ ParallelsOff
    /\ fn = name
    /\ arg \in args
    /\ out = <<>>

\* the function named fn returns result
FnReturn(name, result) ==
    /\ fn = name
    /\ out = <<>>
    /\ out' = <<result>>
    /\ UNCHANGED <<fn, arg, cvars, pvars>>

NewFromProtoArgs ==
    [anyInstance : Descriptors, commands : {<<>>}, goos : HostOSes]

CallNewFromProto ==
    /\ fn = "NewFromProto"
    /\ FnReturn("NewFromProto",
                NewFromProto(arg.anyInstance, arg.commands, arg.goos))

\* ------------------- the quotas and the inputs of RunContainerizedAgent
\* CPU quantities are counted in halves of a CPU (float32 holds them exactly)
\* and keep that unit once scaled by nano.  A byte quantity that is a multiple
\* of mebi (1024 * 1024 = 2^20) is written as its number of mebis.

\* the number of mebis at which a uint32 byte quantity wraps: 2^32 / 2^20
Uint32Mebis == 2^(32 - 20)

\* math.Min on two numbers
clampCPU(requested, available) ==
    IF requested < available THEN requested ELSE available

\* variant: the request is kept as it is
clampMemoryKept(requested, available) == requested

clampMemory(requested, available) ==
    IF requested > available THEN available ELSE requested

\* lines 145-153: params and every additional container with clamped quotas
ClampParams(params, info) ==
    LET availableCPU == 2 * info.TotalCPUs
        availableMemory == info.TotalMemoryBytes.mebis
    IN  [CPU |-> clampCPU(params.CPU, availableCPU),
         Memory |-> clampMemory(params.Memory, availableMemory),
         AdditionalContainers |->
            [k \in 1..Len(params.AdditionalContainers) |->
                [params.AdditionalContainers[k] EXCEPT
                    !.Cpu = clampCPU(@, availableCPU),
                    !.Memory = clampMemory(@, availableMemory)]]]

\* containerbackend.ContainerResources{NanoCPUs: int64(cpu * nano),
\*     Memory: int64(memory * mebi)}: memory is a uint32 and mebi an untyped
\* constant, so the product is a uint32 and wraps
ContainerResources(cpu, memory) ==
    [NanoCPUs |-> cpu, Memory |-> memory % Uint32Mebis]

DecimalDigits == <<"0", "1", "2", "3", "4", "5", "6", "7", "8", "9">>

\* strconv.FormatUint(n, 10), a sequence of characters
RECURSIVE FormatUint(_)
FormatUint(n) ==
    IF n < 10 THEN <<DecimalDigits[n + 1]>>
    ELSE FormatUint(n \div 10) \o <<DecimalDigits[(n % 10) + 1]>>

\* strings.Join(strs, sep)
RECURSIVE Join(_, _)
Join(strs, sep) ==
    IF strs = <<>> THEN <<>>
    ELSE IF Len(strs) = 1 THEN strs[1]
    ELSE strs[1] \o sep \o Join(Tail(strs), sep)

\* variant: the ports of the containers declared last come first
RECURSIVE PortStringsReversed(_)
PortStringsReversed(containers) ==
    IF containers = <<>> THEN <<>>
    ELSE PortStringsReversed(Tail(containers)) \o
         [k \in 1..Len(containers[1].Ports) |->
             FormatUint(containers[1].Ports[k].ContainerPort)]

\* the loops of lines 240-244: ports, the container ports as strings
RECURSIVE PortStrings(_)
PortStrings(containers) ==
    IF containers = <<>> THEN <<>>
    ELSE [k \in 1..Len(containers[1].Ports) |->
             FormatUint(containers[1].Ports[k].ContainerPort)] \o
         PortStrings(Tail(containers))

\* the ContainerCreateInput of the main container (Env and Resources)
ContainerCreateInput(params) ==
    [Env |-> IF Len(params.AdditionalContainers) > 0
             THEN "CIRRUS_PORTS_WAIT_FOR" :>
                      Join(PortStrings(params.AdditionalContainers), <<",">>)
             ELSE <<>>,
     Resources |-> ContainerResources(params.CPU, params.Memory)]

\* the ContainerCreateInput of an additional container (Resources)
AdditionalCreateInput(additionalContainer) ==
    [Resources |-> ContainerResources(additionalContainer.Cpu,
                                      additionalContainer.Memory)]

\* the additional containers that may be declared
DeclaredContainers ==
    {[Cpu |-> 1, Memory |-> 512,
      Ports |-> <<[ContainerPort |-> 80, HostPort |-> 0],
                  [ContainerPort |-> 443, HostPort |-> 0]>>],
     [Cpu |-> 9, Memory |-> 8192,
      Ports |-> <<[ContainerPort |-> 8080, HostPort |-> 0]>>],
     [Cpu |-> 4, Memory |-> 4096, Ports |-> <<>>],
     [Cpu |-> 0, Memory |-> 0, Ports |-> PortsWithHostPorts]}

\* params and the backend's SystemInfo
RunArgs ==
    [params : [CPU : {0, 1, 9}, Memory : {0, 4095, 4096, 8192},
               AdditionalContainers :
                   UNION {[1..n -> DeclaredContainers] : n \in 0..MaxAdditional}],
     info : [TotalCPUs : {1, 4},
             TotalMemoryBytes : [mebis : {2048, 4096, 16384},
                                 bytes : {0, 524288}]]]

\* the quotas are clamped (lines 145-153)
ClampQuotas ==
    /\ fn = "RunContainerizedAgent"
    /\ FnReturn("RunContainerizedAgent",
                [params |-> ClampParams(arg.params, arg.info), inputs |-> <<>>])

\* the inputs of the ContainerCreate calls are built (lines 160-247, 355-364)
BuildCreateInputs ==
    /\ fn = "RunContainerizedAgent"
    /\ out # <<>>
    /\ out[1].inputs = <<>>
    /\ out' = <<[out[1] EXCEPT !.inputs =
                   <<[input |-> ContainerCreateInput(out[1].params),
                      additional |->
                         [k \in 1..Len(out[1].params.AdditionalContainers) |->
                             AdditionalCreateInput(
                                 out[1].params.AdditionalContainers[k])]]>>]>>
    /\ UNCHANGED <<fn, arg, cvars, pvars>>

\* ------------------------------------------------------ TimeSyncCommand
\* A time.Time is an instant, given by its UTC date and clock, and a location,
\* given by its offset from UTC in hours; the offsets and hours tried keep the
\* location's clock on the same day.
Times ==
    [utc : [Year : {1, 2024, 9999, 10000}, Month : {1, 12}, Day : {2, 31},
            Hour : {3, 22}, Minute : {4, 59}],
     zone : {0, 1}]

\* variant: the time keeps its location
UTCKeepsLocation(t) == t

\* t.UTC()
UTC(t) == [t EXCEPT !.zone = 0]

\* the date and clock of t in its location
WallClock(t) == [t.utc EXCEPT !.Hour = @ + t.zone]

\* appendInt(b, x, width): the decimal digits of x, zero-padded to width
RECURSIVE ZeroPadded(_, _)
ZeroPadded(x, width) ==
    IF width <= 1 \/ Len(FormatUint(x)) >= width THEN FormatUint(x)
    ELSE <<"0">> \o ZeroPadded(x, width - 1)

\* t.Format("010215042006"): zero-padded month, day, hour and minute, then
\* the year on at least four digits
TimeFormat(t) ==
    LET w == WallClock(t)
    IN  ZeroPadded(w.Month, 2) \o ZeroPadded(w.Day, 2) \o ZeroPadded(w.Hour, 2)
        \o ZeroPadded(w.Minute, 2) \o ZeroPadded(w.Year, 4)

\* fmt.Sprintf("sudo date -u %s\n", t.Format("010215042006")); the fixed text
\* is one element, every formatted character another
TimeSyncCommand(t) == <<"sudo date -u ">> \o TimeFormat(t) \o <<"\n">>

CallTimeSyncCommand ==
    /\ fn = "TimeSyncCommand"
    /\ FnReturn("TimeSyncCommand", TimeSyncCommand(arg))

\* stdinBuf.Write([]byte(TimeSyncCommand(time.Now().UTC()))), arg being
\* time.Now()
StdinTimeSync ==
    /\ fn = "stdinBuf.Write"
    /\ FnReturn("stdinBuf.Write", TimeSyncCommand(UTC(arg)))

\* ------------------------------------------------- DefaultParser.Parse
\* (pkg/parser/parseable)

\* field.name.Matches(child.Name): an implementation of nameable.Nameable
\* is known to Parse only by what Matches and MapKey answer
Matches(name, s) == s \in name.matches

\* field.name.MapKey()
MapKey(name) == name.key

\* the errors Parse returns (<<>> is nil): of the onFound of the i-th field
\* or collectible field, or node.ParserError("required field %q was not
\* set", ...) for the i-th field
ParseErr(kind, i) == <<kind, i>>

\* func evaluateCollectible(node, field) error
evaluateCollectible(i, field) ==
    IF ~field.found THEN <<>>
    ELSE IF field.fails THEN ParseErr("collectible", i)
    ELSE <<>>

\* the first loop of Parse: every collectible field is evaluated, the first
\* error is returned
RECURSIVE EvaluateCollectibles(_, _)
EvaluateCollectibles(cfs, i) ==
    IF i > Len(cfs) THEN <<>>
    ELSE IF evaluateCollectible(i, cfs[i]) # <<>>
         THEN evaluateCollectible(i, cfs[i])
    ELSE EvaluateCollectibles(cfs, i + 1)

\* the double check of the collectible fields over node.Children: for each
\* child the first collectible field named as the child is evaluated again
RECURSIVE DoubleCheckChildren(_, _, _)
DoubleCheckChildren(cfs, children, j) ==
    IF j > Len(children) THEN <<>>
    ELSE LET I == {i \in 1..Len(cfs) : cfs[i].Name = children[j]}
             err == IF I = {} THEN <<>>
                    ELSE LET i == CHOOSE k \in I : \A m \in I : k <= m
                         IN  evaluateCollectible(i, cfs[i])
         IN  IF err # <<>> THEN err
             ELSE DoubleCheckChildren(cfs, children, j + 1)

\* variant: the last matching field wins (no break)
LastMatch(fields, childName) ==
    LET I == {i \in 1..Len(fields) : Matches(fields[i].name, childName)}
    IN  IF I = {} THEN 0 ELSE CHOOSE k \in I : \A m \in I : k >= m

\* for _, field := range parser.fields {
\*     if field.name.Matches(child.Name) { ...; break } }
FirstMatch(fields, childName) ==
    LET I == {i \in 1..Len(fields) : Matches(fields[i].name, childName)}
    IN  IF I = {} THEN 0 ELSE CHOOSE k \in I : \A m \in I : k <= m

\* the dispatch loop over node.Children: seenFields is written before
\* onFound is called, an error of onFound is returned at once
RECURSIVE Dispatch(_, _, _, _, _)
Dispatch(fields, children, j, seenFields, dispatched) ==
    IF j > Len(children)
    THEN [err |-> <<>>, seenFields |-> seenFields, dispatched |-> dispatched]
    ELSE LET f == FirstMatch(fields, children[j])
         IN  IF f = 0
             THEN Dispatch(fields, children, j + 1, seenFields,
                           Append(dispatched, 0))
             ELSE IF fields[f].fails
             THEN [err |-> ParseErr("onFound", f),
                   seenFields |-> seenFields \cup {MapKey(fields[f].name)},
                   dispatched |-> Append(dispatched, f)]
             ELSE Dispatch(fields, children, j + 1,
                           seenFields \cup {MapKey(fields[f].name)},
                           Append(dispatched, f))

\* for _, field := range parser.fields {
\*     _, seen := seenFields[field.name.MapKey()]
\*     if field.required && !seen { return node.ParserError(...) } }
RequiredCheck(fields, seenFields) ==
    LET I == {i \in 1..Len(fields) :
                 fields[i].required /\ MapKey(fields[i].name) \notin seenFields}
    IN  IF I = {} THEN <<>>
        ELSE ParseErr("required", CHOOSE k \in I : \A m \in I : k <= m)

\* func (parser *DefaultParser) Parse(node *node.Node) error
Parse(parser, node) ==
    LET first == EvaluateCollectibles(parser.collectibleFields, 1)
        second == DoubleCheckChildren(parser.collectibleFields, node.Children, 1)
        d == Dispatch(parser.fields, node.Children, 1, {}, <<>>)
    IN  IF first # <<>> THEN [err |-> first, dispatched |-> <<>>]
        ELSE IF second # <<>> THEN [err |-> second, dispatched |-> <<>>]
        ELSE IF d.err # <<>> THEN [err |-> d.err, dispatched |-> d.dispatched]
        ELSE [err |-> RequiredCheck(parser.fields, d.seenFields),
              dispatched |-> d.dispatched]

\* the parsers and nodes tried: a field carries one of three nameables (two
\* fields may carry the same one), fails tells whether its onFound returns
\* an error; found tells whether node.DeepFindCollectible returns a node
ParseArgs ==
    LET ChildNames == {"a", "b"}
        Nameables == {[matches |-> {"a"}, key |-> "a"],
                      [matches |-> {"b"}, key |-> "b"],
                      [matches |-> {"a", "b"}, key |-> "a|b"]}
        Fields == [name : Nameables, required : BOOLEAN, fails : BOOLEAN]
        CollectibleFields ==
            {<<>>} \cup
            {<<[Name |-> "a", found |-> f[1], fails |-> f[2]]>> :
                 f \in {<<FALSE, FALSE>>, <<TRUE, FALSE>>, <<TRUE, TRUE>>}}
    IN  [parser : [fields : UNION {[1..n -> Fields] : n \in 0..MaxFields},
                   collectibleFields : CollectibleFields],
         node : [Children :
                     UNION {[1..n -> ChildNames] : n \in 0..MaxChildren}]]

\* parser.Parse(node); out holds the error returned and, for each child
\* reached, the index of the field whose onFound received it (0: none)
CallParse ==
    /\ fn = "DefaultParser.Parse"
    /\ FnReturn("DefaultParser.Parse", Parse(arg.parser, arg.node))

FnInit ==
    \/ FnInitOf("NewFromProto", NewFromProtoArgs)
    \/ FnInitOf("RunContainerizedAgent", RunArgs)
    \/ FnInitOf("TimeSyncCommand", Times)
    \/ FnInitOf("stdinBuf.Write", Times)
    \/ FnInitOf("DefaultParser.Parse", ParseArgs)

FnNext ==
    \/ CallNewFromProto
    \/ ClampQuotas
    \/ BuildCreateInputs
    \/ CallTimeSyncCommand
    \/ StdinTimeSync
    \/ CallParse

FnSpec == FnInit /\ [][FnNext]_vars

\* ------------------------------------------------------------- properties

\* the main container's delete step (ContainerDelete, or the no-cleanup log
\* line) has been performed
MainDeleteStepDone == mainDeletes > 0 \/ mainLogged

\* the teardown has executed additionalContainersCancel()
TeardownCancelledAdditional ==
    \/ pc = "returned" /\ contID # NoID
    \/ /\ pc = "defer"
       /\ \E k \in 1..(deferStep - 1) : DeferSteps[k] = "additionalContainersCancel"

\* C1: on every exit path taken after the main container was created, the
\* additional containers' context is cancelled and every additional-container
\* goroutine has finished (each created additional container deleted, or
\* logged under no-cleanup) before the delete step of the main container, and
\* the log reader is cancelled and waited for only after that delete step.
C1_TeardownOrder ==
    /\ MainDeleteStepDone =>
          /\ acCancelled
          /\ acWG = 0
          /\ \A s \in ACs :
                /\ s.pc = "done"
                /\ s.net # NoNetwork => (s.deletes = 1 \/ s.logged)
    /\ logCancelled => MainDeleteStepDone
    /\ InDefer("logReaderWg.Wait") => MainDeleteStepDone /\ logCancelled
    /\ (pc = "returned" /\ contID # NoID) => MainDeleteStepDone /\ logCancelled

\* C1 witness: the function returned through the additional-container error
\* case, an additional container had been created and removed, then the main
\* container was removed and the log reader stopped
C1_Witness ==
    /\ pc = "returned"
    /\ selected = "additionalContainersErrChan"
    /\ mainDeletes = 1
    /\ logCancelled
    /\ logReader = "done"
    /\ \E s \in ACs : s.net # NoNetwork /\ s.deletes = 1

\* C2: every exit path taken after the main container was created completes
\* the teardown and returns to the caller.
C2_EveryExitPathReturns == (pc = "defer") ~> (pc = "returned")

\* C3 (as stated): the event that occurred first decides the case of the
\* select statement that is taken, hence the return value.
C3_FirstEventDecides ==
    [][(pc = "select" /\ pc' # "select") => selected' = firstEvent]_vars

\* the cases of the select statement that can proceed
ReadyCases ==
    {c \in {"waitChan", "errChan", "additionalContainersErrChan"} :
        CASE c = "waitChan" -> waitChan # <<>>
          [] c = "errChan" -> errChan # <<>>
          [] c = "additionalContainersErrChan" -> acErrChan # <<>>}

\* C3 (amended): the select statement takes a case whose event has occurred
\* by the time it is executed and the function returns that event's outcome
\* (nil for the wait result, the received error otherwise); when exactly one
\* event has occurred by then, it is that event's outcome.
C3_SelectReturnsReadyEvent ==
    [][(pc = "select" /\ pc' # "select") =>
          /\ selected' \in ReadyCases
          /\ ret' = CASE selected' = "waitChan" -> NilErr
                      [] selected' = "errChan" -> Head(errChan)
                      [] selected' = "additionalContainersErrChan" -> Head(acErrChan)]_vars

\* C3 witness: only the backend's wait error occurred and it was returned
C3_Witness ==
    /\ selected = "errChan"
    /\ acErrChan = <<>>
    /\ \A s \in ACs : s.err = NilErr
    /\ ret = BackendErr("ContainerWait")

\* the errors the additional-container goroutines hold or have sent
AdditionalErrors ==
    {s.err : s \in ACs} \cup {acErrChan[k] : k \in 1..Len(acErrChan)}

\* C4: cancelling the caller's context never cancels the additional
\* containers' context: that context is cancelled, and a pending wait of an
\* additional container is aborted by cancellation, only once the teardown has
\* called additionalContainersCancel.
C4_SidecarCtxCancelledOnlyByTeardown ==
    /\ AdditionalContainersCtxDone => TeardownCancelledAdditional
    /\ (\E e \in AdditionalErrors : e.cause = ContextCanceled)
          => TeardownCancelledAdditional

\* C4 witness: the caller cancelled while the main container is awaited and an
\* additional container is still running, its context not cancelled
C4_Witness ==
    /\ ctxDone
    /\ pc = "select"
    /\ ~AdditionalContainersCtxDone
    /\ \E s \in ACs : s.pc = "ContainerWait"

\* C5: no additional container is pulled, created or started before the main
\* container's ContainerCreate returned successfully, and each one is created
\* attached to the network "container:<id of the main container>".
C5_SidecarsAfterMainCreate ==
    \A s \in ACs :
       /\ s.pc # "unspawned" => contID # NoID
       /\ s.pc \in {"ContainerStart", "ContainerWait", "cleanup"}
             => s.net # NoNetwork
       /\ s.net # NoNetwork => s.net = <<"container:", contID>> /\ contID # NoID

\* C5 witness: an additional container is created and started while the main
\* container has not been started yet
C5_Witness ==
    /\ pc = "launch"
    /\ ~mainStarted
    /\ \E s \in ACs : s.pc = "ContainerWait" /\ s.net = <<"container:", contID>>

\* NewVMClonedFrom succeeded
Cloned ==
    /\ ppc \notin {"off", "NewVMClonedFrom"}
    /\ pret # ParallelsFailed("NewVMClonedFrom")

\* C6: a VM clone that was created is destroyed exactly once on every exit
\* path of Parallels.Run, and no destroy is attempted when the clone failed.
C6_VMClosedExactlyOnce ==
    /\ vmCloses <= 1
    /\ ~Cloned => vmCloses = 0
    /\ ppc \notin {"off", "unwind", "returned"} => vmCloses = 0
    /\ (ppc = "returned" /\ Cloned) => vmCloses = 1

\* C6 witness: the caller cancelled during the session wait, the monitor
\* closed the connection, the wait failed and Run returned
C6_Witness ==
    /\ ppc = "returned"
    /\ pCtxDone
    /\ monitor = "done"
    /\ pret = ParallelsFailed("Wait")
    /\ vmCloses = 1

\* C7: whenever the caller's context is cancelled while the connection is open
\* and the handshake, the agent upload or the session wait is in progress, the
\* connection is eventually closed.
C7_CancelClosesConnection ==
    (pCtxDone /\ conn = "open" /\ ppc \in {"NewClientConn", "uploadAgent", "Wait"})
        ~> (conn = "closed")

\* the remote-shell client was established
ClientEstablished == monitor # "none"

\* C8 (as stated): when Run returns after the client was established, the
\* client has been closed and the VM clone destroyed.
C8_TeardownDoneAtReturn ==
    (ppc = "returned" /\ ClientEstablished) => (conn = "closed" /\ vmCloses = 1)

\* C8 (amended): when Run returns after the client was established, the VM
\* clone has been destroyed and the monitor's context cancelled; the client is
\* closed already or its close is left to the monitor goroutine.
C8_TeardownStartedAtReturn ==
    (ppc = "returned" /\ ClientEstablished) =>
        /\ vmCloses = 1
        /\ monitorCancelled
        /\ \/ monitor = "done" /\ conn = "closed"
           \/ monitor = "waiting" /\ MonitorCtxDone

\* C8 witness: Run returned nil and the client is not closed yet
C8_Witness ==
    /\ ppc = "returned"
    /\ pret = NilErr
    /\ monitor = "waiting"
    /\ conn = "open"
    /\ monitorCancelled
    /\ vmCloses = 1

\* C9 (as stated): every non-nil error returned by either orchestrator wraps a
\* sentinel.
C9_EveryErrorWrapsSentinel ==
    /\ (ppc = "returned" /\ pret # NilErr) => pret.wraps = ErrFailed
    /\ (pc = "returned" /\ ret # NilErr) => ret.wraps # NoSentinel

\* C9 (amended): every non-nil error of Parallels.Run wraps ErrFailed; an
\* error of RunContainerizedAgent wraps ErrAdditionalContainerFailed exactly
\* when it is an image-pull failure or comes from an additional container, and
\* the errors of SystemInfo, ContainerCreate, ContainerStart, ContainerLogs and
\* of the backend's wait are returned as the backend produced them.
C9_SentinelWrapping ==
    /\ (ppc = "returned" /\ pret # NilErr) => pret.wraps = ErrFailed
    /\ (pc = "returned" /\ ret # NilErr) =>
          /\ ret.wraps \in {ErrAdditionalContainerFailed, NoSentinel}
          /\ ret.wraps = ErrAdditionalContainerFailed
                <=> (ret.cause = "ImagePull"
                       \/ selected = "additionalContainersErrChan")
          /\ ret.wraps = NoSentinel
                <=> ret.cause \in {"SystemInfo", "ContainerCreate",
                                   "ContainerStart", "ContainerLogs",
                                   "ContainerWait"}
                      /\ selected # "additionalContainersErrChan"

\* C9 witness: the pull of the main image failed and the function returned it
\* wrapped in ErrAdditionalContainerFailed
C9_Witness ==
    /\ pc = "returned"
    /\ contID = NoID
    /\ ret = Errorf(ErrAdditionalContainerFailed, BackendErr("ImagePull"))

\* C10 (as stated): an additional container that exits, whatever its exit
\* code, makes runAdditionalContainer return nil, and only failures of its
\* create, start or wait are reported, as ErrAdditionalContainerFailed.
C10_OnlyCreateStartWaitReported ==
    /\ \A s \in ACs : s.res # NoRes => s.err = NilErr
    /\ \A e \in AdditionalErrors \ {NilErr} :
          /\ e.wraps = ErrAdditionalContainerFailed
          /\ e.cause \in {"ContainerCreate", "ContainerStart", "ContainerWait",
                          ContextCanceled}

\* C10 (amended): an additional container that exits, whatever its exit code,
\* makes runAdditionalContainer return nil; only failures of its image pull,
\* create, start or wait are reported, as ErrAdditionalContainerFailed; and
\* the select statement takes the additional-container case only for such a
\* failure.
C10_OnlyBackendFailuresReported ==
    /\ \A s \in ACs : s.res # NoRes => s.err = NilErr
    /\ \A e \in AdditionalErrors \ {NilErr} :
          /\ e.wraps = ErrAdditionalContainerFailed
          /\ e.cause \in {"ImagePull", "ContainerCreate", "ContainerStart",
                          "ContainerWait", ContextCanceled}
    /\ selected = "additionalContainersErrChan" =>
          /\ ret.wraps = ErrAdditionalContainerFailed
          /\ ret.cause \in {"ImagePull", "ContainerCreate", "ContainerStart",
                            "ContainerWait", ContextCanceled}

\* C10 witness: an additional container exited with a non-zero code, nothing
\* was sent on the error channel and the main container is still awaited
C10_Witness ==
    /\ pc = "select"
    /\ acErrChan = <<>>
    /\ firstEvent = "none"
    /\ \E s \in ACs : s.pc = "cleanup" /\ s.res > 0 /\ s.err = NilErr

\* C11: once the result of the main container's wait was received from
\* waitChan, the value RunContainerizedAgent returns is nil, whatever the exit
\* code and the runtime error that result reports; it stays nil through the
\* teardown up to the return.
C11_ExitCodeNeverChangesReturn ==
    /\ selected = "waitChan" => ret = NilErr
    /\ mainRes # <<>> => selected = "waitChan"

\* C11 witness: return nil was executed after the main container exited with
\* a non-zero exit code and reported a runtime error
C11_Witness ==
    /\ pc = "defer"
    /\ mainRes # <<>>
    /\ mainRes[1].StatusCode # 0
    /\ mainRes[1].Error # ""
    /\ ret = NilErr

\* the teardown is past its ContainerDelete statement
PastMainDelete ==
    \/ pc = "returned"
    \/ /\ pc = "defer"
       /\ \E k \in 1..Len(DeferSteps) :
             DeferSteps[k] = "ContainerDelete" /\ deferStep > k

\* C12: a ContainerDelete that fails during the teardown is only logged. The
\* step of the teardown that deletes the main container leaves the value to
\* return as it was, whether the delete fails or not, and the teardown goes on
\* with its next statement; no error of a ContainerDelete, of the main or of an
\* additional container, is ever returned, held by an additional container's
\* goroutine or sent on additionalContainersErrChan.
C12_DeleteFailureOnlyWarns ==
    [][/\ (InDefer("ContainerDelete") /\ deferStep' # deferStep) =>
            /\ ret' = ret
            /\ PastMainDelete'
       /\ mainWarned' => PastMainDelete'
       /\ ret'.cause # "ContainerDelete"
       /\ \A e \in AdditionalErrors' : e.cause # "ContainerDelete"]_vars

\* C12 witness: the delete of the main container failed after the container
\* had exited; the rest of the teardown ran and nil was returned
C12_Witness ==
    /\ pc = "returned"
    /\ mainWarned
    /\ mainDeletes = 1
    /\ logCancelled
    /\ selected = "waitChan"
    /\ ret = NilErr

\* the additional containers that were created
CreatedACs == {s \in ACs : s.net # NoNetwork}

\* the additional containers that declare a port mapping with a host port
HostPortACs == {s \in ACs : \E k \in 1..Len(s.ports) : s.ports[k].HostPort # 0}

\* the unsupported-port-mapping warnings logged so far by all goroutines
RECURSIVE SumWarnings(_)
SumWarnings(S) ==
    IF S = {} THEN 0
    ELSE LET s == CHOOSE x \in S : TRUE
         IN  s.warnings * CopiesIn(s, ac) + SumWarnings(S \ {s})

TotalPortWarnings == SumWarnings(ACs)

\* C13 (as stated): when every additional container declares a port mapping
\* with a host port, at most one unsupported-port-mapping warning is logged
\* for the whole set.
C13_OneWarningForTheSet ==
    (ACs # {} /\ HostPortACs = ACs) => TotalPortWarnings <= 1

\* C13 (amended): every additional container that was created logged exactly
\* one warning if one of its port mappings sets a host port, however many of
\* its mappings do, and none otherwise; a container that was not created
\* logged none. N created containers with host ports give N warnings.
C13_OneWarningPerContainer ==
    /\ \A s \in ACs :
          s.warnings = IF s \in CreatedACs /\ s \in HostPortACs THEN 1 ELSE 0
    /\ TotalPortWarnings = BagCardinality([s \in CreatedACs \cap HostPortACs |-> ac[s]])

\* C13 witness: two additional containers with host ports were created and
\* two warnings were logged
C13_Witness ==
    /\ nAC >= 2
    /\ HostPortACs = ACs
    /\ CreatedACs = ACs
    /\ TotalPortWarnings = nAC

\* the platform whose printed name is the host's operating system
HostPlatform(goos) ==
    CASE goos = <<"l", "i", "n", "u", "x">> -> "Platform_LINUX"
      [] goos = <<"d", "a", "r", "w", "i", "n">> -> "Platform_DARWIN"
      [] goos = <<"w", "i", "n", "d", "o", "w", "s">> -> "Platform_WINDOWS"

\* the platform constraints of a descriptor hold on the host
PlatformConstraintsSatisfied(instance, goos) ==
    CASE instance.Message = "ContainerInstance" ->
             instance.Platform \in {"Platform_LINUX", "Platform_WINDOWS"}
      [] instance.Message \in {"PersistentWorkerInstance", "DockerBuilder"} ->
             instance.Platform = HostPlatform(goos)
      [] OTHER -> TRUE

NewFromProtoReturned == fn = "NewFromProto" /\ out # <<>>

InputsBuilt ==
    /\ fn = "RunContainerizedAgent"
    /\ out # <<>>
    /\ out[1].inputs # <<>>

\* the number a sequence of decimal digits denotes
RECURSIVE ParseUint(_)
ParseUint(str) ==
    IF str = <<>> THEN 0
    ELSE 10 * ParseUint(SubSeq(str, 1, Len(str) - 1)) +
         (CHOOSE n \in 0..9 : DecimalDigits[n + 1] = str[Len(str)])

\* the fields of a comma-separated list (none for the empty string)
RECURSIVE CommaFields(_)
CommaFields(str) ==
    IF str = <<>> THEN <<>>
    ELSE IF \E k \in 1..Len(str) : str[k] = ","
    THEN LET k == CHOOSE i \in 1..Len(str) :
                     str[i] = "," /\ \A j \in 1..(i - 1) : str[j] # ","
         IN  <<SubSeq(str, 1, k - 1)>> \o
             (IF k = Len(str) THEN <<<<>>>>
              ELSE CommaFields(SubSeq(str, k + 1, Len(str))))
    ELSE <<str>>

\* the container port of the n-th port mapping, counting through the
\* containers in the order they are declared (-1: there is no such mapping)
RECURSIVE DeclaredPortAt(_, _)
DeclaredPortAt(containers, n) ==
    IF containers = <<>> THEN -1
    ELSE IF n <= Len(containers[1].Ports)
    THEN containers[1].Ports[n].ContainerPort
    ELSE DeclaredPortAt(Tail(containers), n - Len(containers[1].Ports))

\* C16: the environment of the main container has CIRRUS_PORTS_WAIT_FOR
\* exactly when an additional container is declared; its value is then a
\* comma-separated list with one decimal number for every port mapping, the
\* n-th being the container port of the n-th mapping in declaration order;
\* containers with ports 80, 443 and 8080 give "80,443,8080".
C16_PortsWaitFor ==
    InputsBuilt =>
        LET containers == arg.params.AdditionalContainers
            env == out[1].inputs[1].input.Env
            fields == CommaFields(env["CIRRUS_PORTS_WAIT_FOR"])
        IN  /\ ("CIRRUS_PORTS_WAIT_FOR" \in DOMAIN env) <=> (Len(containers) > 0)
            /\ Len(containers) > 0 =>
                 /\ \A n \in 1..Len(fields) :
                       /\ fields[n] # <<>>
                       /\ ParseUint(fields[n]) = DeclaredPortAt(containers, n)
                 /\ DeclaredPortAt(containers, Len(fields) + 1) = -1
            /\ (/\ Len(containers) = 2
                /\ \A n \in 1..3 :
                      DeclaredPortAt(containers, n) = <<80, 443, 8080>>[n]
                /\ Len(containers[1].Ports) = 2
                /\ Len(containers[2].Ports) = 1) =>
                 env["CIRRUS_PORTS_WAIT_FOR"] =
                    <<"8", "0", ",", "4", "4", "3", ",", "8", "0", "8", "0">>

\* C16 witness: the inputs were built for containers with ports 80, 443 and
\* 8080 and the variable was set to "80,443,8080"
C16_Witness ==
    /\ InputsBuilt
    /\ Len(arg.params.AdditionalContainers) = 2
    /\ Len(arg.params.AdditionalContainers[1].Ports) = 2
    /\ out[1].inputs[1].input.Env =
          ("CIRRUS_PORTS_WAIT_FOR" :>
              <<"8", "0", ",", "4", "4", "3", ",", "8", "0", "8", "0">>)

\* C17: the CPU and memory quotas of the main container and of every
\* additional container are clamped before any ContainerCreate input exists:
\* each is at most the available amount, at most the requested amount, and the
\* requested amount when that does not exceed the available one; the inputs
\* are built from the clamped quotas (the memory limit up to the width of its
\* byte count).
C17_QuotasClamped ==
    (fn = "RunContainerizedAgent" /\ out # <<>>) =>
        LET requested == arg.params
            clamped == out[1].params
            availableCPU == 2 * arg.info.TotalCPUs
            availableMemory == arg.info.TotalMemoryBytes.mebis
            IsClamp(c, r, a) == c <= a /\ c <= r /\ (r <= a => c = r)
            Built(resources, cpu, memory) ==
                /\ resources.NanoCPUs = cpu
                /\ resources.Memory % Uint32Mebis = memory % Uint32Mebis
        IN  /\ IsClamp(clamped.CPU, requested.CPU, availableCPU)
            /\ IsClamp(clamped.Memory, requested.Memory, availableMemory)
            /\ Len(clamped.AdditionalContainers) = Len(requested.AdditionalContainers)
            /\ \A k \in 1..Len(requested.AdditionalContainers) :
                  /\ IsClamp(clamped.AdditionalContainers[k].Cpu,
                             requested.AdditionalContainers[k].Cpu, availableCPU)
                  /\ IsClamp(clamped.AdditionalContainers[k].Memory,
                             requested.AdditionalContainers[k].Memory,
                             availableMemory)
            /\ InputsBuilt =>
                  /\ Built(out[1].inputs[1].input.Resources,
                           clamped.CPU, clamped.Memory)
                  /\ \A k \in 1..Len(requested.AdditionalContainers) :
                        Built(out[1].inputs[1].additional[k].Resources,
                              clamped.AdditionalContainers[k].Cpu,
                              clamped.AdditionalContainers[k].Memory)

\* C17 witness: the inputs were built after the main container and an
\* additional container asked for more CPU and memory than the host has
C17_Witness ==
    /\ InputsBuilt
    /\ arg.params.CPU > 2 * arg.info.TotalCPUs
    /\ arg.params.Memory > arg.info.TotalMemoryBytes.mebis
    /\ out[1].params.CPU = 2 * arg.info.TotalCPUs
    /\ out[1].params.Memory = arg.info.TotalMemoryBytes.mebis
    /\ \E k \in 1..Len(arg.params.AdditionalContainers) :
          /\ arg.params.AdditionalContainers[k].Memory >
                arg.info.TotalMemoryBytes.mebis
          /\ out[1].params.AdditionalContainers[k].Memory =
                arg.info.TotalMemoryBytes.mebis

\* C20: the byte memory limit given to ContainerCreate is the clamped quota
\* in MiB times 1048576, for the main container and for every additional
\* container; a quota of 4096 MiB or more therefore gives a non-zero limit.
C20_MemoryLimitExact ==
    InputsBuilt =>
        /\ out[1].inputs[1].input.Resources.Memory = out[1].params.Memory
        /\ \A k \in 1..Len(out[1].params.AdditionalContainers) :
              out[1].inputs[1].additional[k].Resources.Memory =
                  out[1].params.AdditionalContainers[k].Memory

\* the goroutines whose runAdditionalContainer call has run its cleanup
CleanedUpACs == {s \in CreatedACs : s.pc \in {"send", "wgDone", "done"}}

\* C18: with NoCleanup set ContainerDelete is never called, for the main
\* container or for an additional one.  Without it ContainerDelete is called
\* at most once per container and only for a container that was created,
\* exactly once for the main container by the time the teardown is past its
\* delete statement and exactly once for an additional container by the time
\* its goroutine is past its cleanup; the context given to ContainerDelete is
\* never a cancelled one, whatever was cancelled by the caller or the teardown.
C18_DeleteOncePerCreatedContainer ==
    /\ noCleanup => (mainDeletes = 0 /\ \A s \in ACs : s.deletes = 0)
    /\ ~noCleanup =>
          /\ mainDeletes = IF contID # NoID /\ PastMainDelete THEN 1 ELSE 0
          /\ \A s \in ACs : s.deletes = IF s \in CleanedUpACs THEN 1 ELSE 0
    /\ ~deleteCtxDone

\* C18 witness: the caller cancelled its context, the teardown cancelled the
\* additional containers; the main container and two additional containers
\* were each deleted once
C18_Witness ==
    /\ pc = "returned"
    /\ ~noCleanup
    /\ ctxDone
    /\ acCancelled
    /\ nAC >= 2
    /\ mainDeletes = 1
    /\ \A s \in ACs : s.pc = "done" /\ s.deletes = 1

\* cmd is "sudo date -u ", the twelve digits mmddHHMMYYYY of the date and
\* clock w, and a newline
IsTimeSyncCommand(cmd, w) ==
    /\ Len(cmd) = 14
    /\ cmd[1] = "sudo date -u "
    /\ cmd[14] = "\n"
    /\ \A k \in 2..13 : \E n \in 1..10 : DecimalDigits[n] = cmd[k]
    /\ ParseUint(SubSeq(cmd, 2, 3)) = w.Month
    /\ ParseUint(SubSeq(cmd, 4, 5)) = w.Day
    /\ ParseUint(SubSeq(cmd, 6, 7)) = w.Hour
    /\ ParseUint(SubSeq(cmd, 8, 9)) = w.Minute
    /\ ParseUint(SubSeq(cmd, 10, 13)) = w.Year

\* C19 (as stated): for every time t, TimeSyncCommand(t) is "sudo date -u ",
\* the twelve digits mmddHHMMYYYY of t and a newline.
C19_TwelveDigitsForEveryTime ==
    (fn = "TimeSyncCommand" /\ out # <<>>) =>
        IsTimeSyncCommand(out[1], WallClock(arg))

\* C19 (amended): for every time t whose year has at most four digits,
\* TimeSyncCommand(t) is "sudo date -u ", the twelve digits mmddHHMMYYYY of t
\* and a newline (a later year takes more digits); 2024-01-02T03:04Z gives
\* "sudo date -u 010203042024\n"; the command Run writes is that of the UTC
\* date and clock of the current time, whatever its location.
C19_TimeSyncCommandLayout ==
    /\ (fn = "TimeSyncCommand" /\ out # <<>>) =>
          /\ WallClock(arg).Year <= 9999 =>
                IsTimeSyncCommand(out[1], WallClock(arg))
          /\ WallClock(arg).Year > 9999 => Len(out[1]) > 14
          /\ arg = [utc |-> [Year |-> 2024, Month |-> 1, Day |-> 2,
                             Hour |-> 3, Minute |-> 4], zone |-> 0] =>
                out[1] = <<"sudo date -u ", "0", "1", "0", "2", "0", "3",
                           "0", "4", "2", "0", "2", "4", "\n">>
    /\ (fn = "stdinBuf.Write" /\ out # <<>> /\ arg.utc.Year <= 9999) =>
          IsTimeSyncCommand(out[1], arg.utc)

\* C19 witness: Run wrote the command for a current time whose location is
\* not UTC
C19_Witness ==
    /\ fn = "stdinBuf.Write"
    /\ arg = [utc |-> [Year |-> 2024, Month |-> 1, Day |-> 2,
                       Hour |-> 3, Minute |-> 4], zone |-> 1]
    /\ out = <<<<"sudo date -u ", "0", "1", "0", "2", "0", "3",
                 "0", "4", "2", "0", "2", "4", "\n">>>>

\* the additional containers whose goroutine has not passed its send yet
\* (started or not), counted with their multiplicity
BeforeSend ==
    BagCardinality([s \in {t \in ACs : t.pc \notin {"wgDone", "done"}} |-> ac[s]])

\* C21: the error channel of the additional containers never blocks a
\* writer. Its capacity is the number N of additional containers and each
\* goroutine sends at most once, so the buffered errors plus the goroutines
\* that have not sent yet never exceed N; whenever a goroutine stands at
\* the send with an error the buffer has room, whether or not the
\* orchestrator still receives, and no goroutine is kept from its
\* additionalContainersWG.Done() by the channel.
C21_SendNeverBlocks ==
    /\ Len(acErrChan) <= nAC
    /\ Len(acErrChan) + BeforeSend <= nAC
    /\ \A s \in ACs : s.pc = "send" /\ s.err # NilErr => ErrChanHasRoom

\* both additional containers failed after the orchestrator left the
\* select statement through another case: their errors fill the buffer,
\* both goroutines are done and the teardown is past its wait for them
C21_Witness ==
    /\ nAC = MaxAdditional
    /\ selected = "waitChan"
    /\ Len(acErrChan) = nAC
    /\ acWG = 0
    /\ \A s \in ACs : s.pc = "done"
    /\ pc = "returned"

\* Parse has returned
ParseReturned == fn = "DefaultParser.Parse" /\ out # <<>>

\* each child that was reached went to the first matching field in
\* declaration order, or to no handler when no field matches it; the error
\* of a handler is returned at once, the failing handler being the last
\* one called
DispatchAsStated(fields, children, r) ==
    /\ Len(r.dispatched) <= Len(children)
    /\ \A j \in 1..Len(r.dispatched) :
          LET matching == {i \in 1..Len(fields) :
                              Matches(fields[i].name, children[j])}
          IN  IF matching = {}
              THEN r.dispatched[j] = 0
              ELSE /\ r.dispatched[j] \in matching
                   /\ \A i \in matching : r.dispatched[j] <= i
                   /\ fields[r.dispatched[j]].fails
                         => /\ j = Len(r.dispatched)
                            /\ r.err = ParseErr("onFound", r.dispatched[j])

\* no handler returned an error
NoHandlerError(r) ==
    r.err = <<>> \/ r.err[1] \notin {"onFound", "collectible"}

\* the fields that were the first-matching field of some child
DispatchedFields(r) ==
    {r.dispatched[j] : j \in 1..Len(r.dispatched)} \ {0}

\* C22 as stated: each child goes to at most one field handler, the first
\* matching field in declaration order; a handler error is returned at once
\* and stops the dispatch; and without a handler error Parse returns the
\* "required field was not set" error exactly when some required field was
\* not the first-matching field of any child.
C22_RequiredIffNotDispatched ==
    ParseReturned =>
        LET fields == arg.parser.fields
            children == arg.node.Children
            r == out[1]
        IN  /\ DispatchAsStated(fields, children, r)
            /\ NoHandlerError(r) =>
                  /\ Len(r.dispatched) = Len(children)
                  /\ (r.err # <<>>) <=>
                        \E i \in 1..Len(fields) :
                            /\ fields[i].required
                            /\ i \notin DispatchedFields(r)

\* C22, amended: the fields seen are remembered by their map key, so
\* without a handler error Parse returns the "required field was not set"
\* error exactly when some required field has a map key that is not the
\* map key of the first-matching field of any child (the error names the
\* first such field); the dispatch and the handling of handler errors are
\* as stated.
C22_RequiredIffKeyNotSeen ==
    ParseReturned =>
        LET fields == arg.parser.fields
            children == arg.node.Children
            r == out[1]
            unseen == {i \in 1..Len(fields) :
                          /\ fields[i].required
                          /\ \A k \in DispatchedFields(r) :
                                MapKey(fields[k].name) # MapKey(fields[i].name)}
        IN  /\ DispatchAsStated(fields, children, r)
            /\ NoHandlerError(r) =>
                  /\ Len(r.dispatched) = Len(children)
                  /\ (r.err # <<>>) <=> (unseen # {})
                  /\ unseen # {} =>
                        /\ r.err[2] \in unseen
                        /\ \A i \in unseen : r.err[2] <= i

\* a required field stands behind an optional field of the same name, the
\* child went to the optional one, and Parse returned no error
C22_Witness ==
    /\ ParseReturned
    /\ Len(arg.parser.fields) = 2
    /\ arg.parser.fields[1].name = arg.parser.fields[2].name
    /\ ~arg.parser.fields[1].required
    /\ arg.parser.fields[2].required
    /\ out[1].dispatched = <<1>>
    /\ out[1].err = <<>>

====
